---- MODULE Spec2Model ----
(***************************************************************************)
(* A model of hu: the broken-internal-link checker (hu/commands/           *)
(* links_404.py) and the social-preview SVG generator (hu/commands/svg.py).*)
(*                                                                         *)
(* Strings are sequences of one-character strings.  A filesystem path is a *)
(* sequence of segments (each a string), read from the filesystem root.    *)
(* A filesystem state is the set of paths of its regular files; a folder   *)
(* exists when it is a proper prefix of a file (no symbolic links).        *)
(***************************************************************************)
EXTENDS Integers, Sequences, FiniteSets, TLC

VARIABLES
    pc,          \* position of the operation under way
    fs,          \* links: the regular files on disk (a set of paths)
    link,        \* resolver: the link string being resolved
    base_path,   \* resolver: the markdown file that holds the link
    internal,    \* resolver: outcome of is_internal_link(link)
    result,      \* resolver: outcome of check_internal_link(link, ...)
    contents,    \* scan: the text of each markdown file, as its link elements
    unreadable,  \* scan: the markdown files whose read_text raises
    hugo_root,   \* scan: the --hugo-root folder
    pending,     \* scan: the files of md_files not yet visited by the loop
    broken_links,\* scan: the ScanResult, entries in insertion order
    exit_code,   \* scan: the exit code of the 404-links command
    text,        \* wrap: the text handed to wrap_by_width
    font_size,   \* wrap: its font size
    width,       \* wrap, svg: the canvas width
    lines,       \* wrap: the lines wrap_by_width returned
    title,       \* svg: the title handed to make_svg
    desc,        \* svg: the description handed to make_svg
    height,      \* svg: the canvas height
    document,    \* svg: the document make_svg returned
    yaml,        \* frontmatter: whether the import of yaml succeeded
    md_text,     \* frontmatter: the text of the markdown file
    readable,    \* frontmatter: whether read_text returns
    fm,          \* frontmatter: what read_frontmatter returned
    files,       \* svg run: the text of each file on disk
    svg_md_files,\* svg run: the sorted list md_files of the svg command
    md_index,    \* svg run: how many files the loop has gone through
    count,       \* svg run: the counter of images written
    echo,        \* svg run: the lines printed, in order
    writes       \* svg run: the write_text calls made, in order

resolverVars == <<link, base_path, internal, result>>

scanVars == <<contents, unreadable, hugo_root, pending, broken_links, exit_code>>

wrapVars == <<text, font_size, lines>>

svgVars == <<title, desc, height, document>>

fmVars == <<md_text, readable, fm>>

runVars == <<files, svg_md_files, md_index, count, echo, writes>>

otherVars == <<fmVars, yaml, runVars>>

vars == <<pc, fs, resolverVars, scanVars, wrapVars, width, svgVars, fmVars, yaml, runVars>>

----------------------------------------------------------------------------
(* String helpers (str methods used by the source).                        *)

RECURSIVE Concat(_)
Concat(ss) == IF ss = <<>> THEN <<>> ELSE Head(ss) \o Concat(Tail(ss))

Contains(s, c) == \E i \in 1..Len(s) : s[i] = c

\* str.find(c) + 1: the position of the first c in s, 0 when there is none
Find(s, c) == IF Contains(s, c)
              THEN CHOOSE i \in 1..Len(s) : s[i] = c /\ \A j \in 1..(i-1) : s[j] # c
              ELSE 0

\* str.rfind(c) + 1
RFind(s, c) == IF Contains(s, c)
               THEN CHOOSE i \in 1..Len(s) : s[i] = c /\ \A j \in (i+1)..Len(s) : s[j] # c
               ELSE 0

\* s.split(c)[0]
SplitFirst(s, c) == IF Contains(s, c) THEN SubSeq(s, 1, Find(s, c) - 1) ELSE s

StartsWith(s, c) == Len(s) > 0 /\ s[1] = c

RECURSIVE RStrip(_, _)
RStrip(s, c) == IF Len(s) > 0 /\ s[Len(s)] = c THEN RStrip(SubSeq(s, 1, Len(s) - 1), c) ELSE s

RECURSIVE LStrip(_, _)
LStrip(s, c) == IF Len(s) > 0 /\ s[1] = c THEN LStrip(Tail(s), c) ELSE s

\* s.split(c): the pieces between occurrences of c, empty pieces kept
RECURSIVE Split(_, _)
Split(s, c) == IF Contains(s, c)
               THEN <<SubSeq(s, 1, Find(s, c) - 1)>> \o Split(SubSeq(s, Find(s, c) + 1, Len(s)), c)
               ELSE <<s>>

----------------------------------------------------------------------------
(* urllib.parse.urlparse, as far as is_internal_link depends on it: the    *)
(* scheme split, the '//netloc' split and the bracket check that raises    *)
(* ValueError("Invalid IPv6 URL").                                         *)

NUL == "NUL"    \* the character chr(0)

Alpha == {"a", "e", "f", "h", "i", "l", "F"}

SchemeChars == Alpha \cup {"+", "-", "."}

\* str.lower() on one character
LowerChar(c) == IF c = "F" THEN "f" ELSE c

Lower(s) == [i \in 1..Len(s) |-> LowerChar(s[i])]

\* urlsplit first drops leading C0 control characters and spaces
UrlStrip(url) == LStrip(url, NUL)

HasScheme(url) ==
    LET u == UrlStrip(url)
        i == Find(u, ":")
    IN  /\ i > 1
        /\ u[1] \in Alpha
        /\ \A j \in 1..(i-1) : u[j] \in SchemeChars

\* urlsplit: scheme, url = url[:i].lower(), url[i+1:]
UrlScheme(url) ==
    LET u == UrlStrip(url)
    IN  IF HasScheme(url) THEN Lower(SubSeq(u, 1, Find(u, ":") - 1)) ELSE <<>>

UrlRest(url) ==
    LET u == UrlStrip(url)
    IN  IF HasScheme(url) THEN SubSeq(u, Find(u, ":") + 1, Len(u)) ELSE u

\* _splitnetloc(url, 2): the text between '//' and the first of '/', '?', '#'
Netloc(rest) ==
    IF Len(rest) >= 2 /\ rest[1] = "/" /\ rest[2] = "/"
    THEN LET after == SubSeq(rest, 3, Len(rest))
             stops == {i \in 1..Len(after) : after[i] \in {"/", "?", "#"}}
             delim == IF stops = {} THEN Len(after) + 1
                      ELSE CHOOSE i \in stops : \A j \in stops : i <= j
         IN  SubSeq(after, 1, delim - 1)
    ELSE <<>>

\* urlsplit raises ValueError when the netloc holds one bracket without the other
UrlparseRaises(url) ==
    LET netloc == Netloc(UrlRest(url))
    IN  \/ Contains(netloc, "[") /\ ~Contains(netloc, "]")
        \/ Contains(netloc, "]") /\ ~Contains(netloc, "[")

FileScheme == <<"f", "i", "l", "e">>

\* is_internal_link(link): "True", "False", or "ValueError" when urlparse raises
is_internal_link(l) ==
    IF UrlparseRaises(l) THEN "ValueError"
    ELSE IF UrlScheme(l) = <<>> \/ UrlScheme(l) = FileScheme THEN "True"
    ELSE "False"

----------------------------------------------------------------------------
(* pathlib on a POSIX filesystem without symbolic links.                   *)

\* PurePosixPath(s).parts of a path that does not start with '/':
\* empty and '.' segments are dropped, '..' is kept
PathParts(s) == SelectSeq(Split(s, "/"), LAMBDA p : p # <<>> /\ p # <<".">>)

\* PurePath.suffix of the last segment: name[i:] for i = name.rfind('.')
\* when 0 < i < len(name) - 1, else ''
NameSuffix(name) ==
    LET i == RFind(name, ".")
    IN  IF i > 1 /\ i < Len(name) THEN SubSeq(name, i, Len(name)) ELSE <<>>

PathSuffix(parts) == IF parts = <<>> THEN <<>> ELSE NameSuffix(parts[Len(parts)])

Parent(p) == IF p = <<>> THEN <<>> ELSE SubSeq(p, 1, Len(p) - 1)

HasNul(p) == \E i \in 1..Len(p) : Contains(p[i], NUL)

IsFile(p) == p \in fs

IsDir(p) == p = <<>> \/ \E f \in fs : Len(f) > Len(p) /\ SubSeq(f, 1, Len(p)) = p

\* os.stat's walk: every segment before the last names a folder that exists,
\* '..' steps to the parent of the folder reached
RECURSIVE Walk(_, _)
Walk(cur, rest) ==
    IF rest = <<>> THEN TRUE
    ELSE IF ~IsDir(cur) THEN FALSE
    ELSE IF Head(rest) = <<".", ".">> THEN Walk(Parent(cur), Tail(rest))
    ELSE /\ IsDir(Append(cur, Head(rest))) \/ IsFile(Append(cur, Head(rest)))
         /\ Walk(Append(cur, Head(rest)), Tail(rest))

\* Path.exists(): False when stat fails with ENOENT/ENOTDIR or with the
\* ValueError of an embedded NUL
exists(p) == IF HasNul(p) THEN FALSE ELSE Walk(<<>>, p)

\* Path.resolve() without symbolic links: '..' removes the segment before it
RECURSIVE Normalize(_, _)
Normalize(acc, rest) ==
    IF rest = <<>> THEN acc
    ELSE IF Head(rest) = <<".", ".">> THEN Normalize(Parent(acc), Tail(rest))
    ELSE Normalize(Append(acc, Head(rest)), Tail(rest))

\* Path.resolve() lets the ValueError of lstat on an embedded NUL through
ResolveRaises(p) == HasNul(p)

resolve(p) == Normalize(<<>>, p)

IndexMd == <<"i", "n", "d", "e", "x", ".", "m", "d">>

ListIndexMd == <<"_">> \o IndexMd

Bool(b) == IF b THEN "True" ELSE "False"

----------------------------------------------------------------------------
(* The Link Resolver.                                                      *)

\* lines 70-72: rstrip('/') unless the path is a single character
NormalizeSlash(q) == IF Len(q) > 1 THEN RStrip(q, "/") ELSE q

\* lines 75-86: an absolute site-root path
CheckAbsolute(link_without_query, content_root) ==
    LET path_part == PathParts(LStrip(link_without_query, "/"))
        dir_path  == content_root \o path_part
    IN  IF PathSuffix(path_part) # <<>>
        THEN [ret |-> "True", io |-> FALSE]
        ELSE [ret |-> Bool(exists(Append(dir_path, IndexMd)) \/ exists(Append(dir_path, ListIndexMd))),
              io  |-> TRUE]

\* lines 88-98: a path relative to the folder of the referencing file
CheckRelative(link_without_query, base) ==
    LET rel_path == PathParts(link_without_query)
        joined   == Parent(base) \o rel_path
    IN  IF ResolveRaises(joined) THEN [ret |-> "ValueError", io |-> TRUE]
        ELSE IF PathSuffix(rel_path) # <<>>
        THEN [ret |-> Bool(exists(resolve(joined))), io |-> TRUE]
        ELSE [ret |-> Bool(exists(Append(resolve(joined), IndexMd))), io |-> TRUE]

\* check_internal_link(link, base_path, content_root, hugo_root): ret is
\* "True", "False" or the exception raised; io says whether the filesystem
\* was consulted
check_internal_link(l, base, content_root, project_root) ==
    IF StartsWith(l, "#") THEN [ret |-> "True", io |-> FALSE]
    ELSE LET link_without_anchor == SplitFirst(l, "#")
             link_without_query  == SplitFirst(link_without_anchor, "?")
         IN  IF link_without_anchor = <<>> THEN [ret |-> "True", io |-> FALSE]
             ELSE IF is_internal_link(link_without_anchor) = "ValueError"
             THEN [ret |-> "ValueError", io |-> FALSE]
             ELSE IF is_internal_link(link_without_anchor) = "False"
             THEN [ret |-> "True", io |-> FALSE]
             ELSE IF link_without_query = <<>> THEN [ret |-> "True", io |-> FALSE]
             ELSE IF StartsWith(NormalizeSlash(link_without_query), "/")
             THEN CheckAbsolute(NormalizeSlash(link_without_query), content_root)
             ELSE CheckRelative(NormalizeSlash(link_without_query), base)


----------------------------------------------------------------------------
(* The resolver applied to one link: the inputs are a filesystem state, a  *)
(* referencing markdown file that exists in it, and a link string.         *)

MaxLinkTokens == 4

MaxFiles == 2

HugoRoot == << <<"h">> >>

ContentRoot == HugoRoot \o << <<"c">> >>

PageA == ContentRoot \o << <<"a">> >>

\* the files a filesystem state may hold
FsUniverse ==
    { Append(ContentRoot, IndexMd), Append(ContentRoot, ListIndexMd),
      Append(PageA, IndexMd), Append(PageA, ListIndexMd),
      PageA \o << <<"a">>, IndexMd >>, PageA \o << <<"a">>, ListIndexMd >>,
      PageA \o << <<"a", ".", "a">> >>,
      PageA \o << <<"f", "i", "l", "e", ":">>, <<"[">>, IndexMd >> }

FsStates == {s \in SUBSET FsUniverse : Cardinality(s) <= MaxFiles}

\* the markdown files the scan may hand to the resolver as base_path
Referencing == {Append(ContentRoot, IndexMd), Append(PageA, IndexMd)}

LinkTokens ==
    { <<"/">>, <<"a">>, <<".", "a">>, <<".", ".">>, <<"#">>, <<"?">>,
      <<"h", ":">>, <<"f", "i", "l", "e", ":">>, <<"[">>, <<NUL>> }

Links == {Concat(ts) : ts \in UNION {[1..n -> LinkTokens] : n \in 0..MaxLinkTokens}}

NoResult == [ret |-> "none", io |-> FALSE]

IdleResolver ==
    /\ link = <<>> /\ base_path = <<>>
    /\ internal = "none" /\ result = NoResult

\* no exit yet
NoExit == 0 - 1

IdleScan ==
    /\ contents = <<>> /\ unreadable = {} /\ hugo_root = <<>>
    /\ pending = {} /\ broken_links = <<>> /\ exit_code = NoExit

IdleWrap == text = <<>> /\ font_size = 0 /\ lines = <<>>

IdleSvg == title = <<>> /\ desc = <<>> /\ height = 0 /\ document = <<>>

IdleFm == md_text = <<>> /\ readable = TRUE /\ fm = <<>> /\ yaml = FALSE

IdleRun ==
    /\ files = <<>> /\ svg_md_files = <<>> /\ md_index = 0
    /\ count = 0 /\ echo = <<>> /\ writes = <<>>

IdleImage == IdleWrap /\ IdleSvg /\ width = 0 /\ IdleFm /\ IdleRun

InitResolve ==
    /\ pc = "resolve"
    /\ fs \in FsStates
    /\ base_path \in Referencing \cap fs
    /\ link \in Links
    /\ internal = "none"
    /\ result = NoResult
    /\ IdleScan /\ IdleImage

\* find_broken_links line 122, first operand
IsInternalLink ==
    /\ pc = "resolve"
    /\ internal' = is_internal_link(link)
    /\ pc' = "classified"
    /\ UNCHANGED <<fs, link, base_path, result, scanVars, wrapVars, width, svgVars, otherVars>>

\* the call of check_internal_link
CheckInternalLink ==
    /\ pc = "classified"
    /\ result' = check_internal_link(link, base_path, ContentRoot, HugoRoot)
    /\ pc' = "checked"
    /\ UNCHANGED <<fs, link, base_path, internal, scanVars, wrapVars, width, svgVars, otherVars>>

NextResolve == IsInternalLink \/ CheckInternalLink

SpecResolve == InitResolve /\ [][NextResolve]_vars


----------------------------------------------------------------------------
(* Claims about the resolver (checked under SpecResolve).                  *)

\* the link's path: '#fragment', '?query' and trailing slashes removed
NormPath(l) == NormalizeSlash(SplitFirst(SplitFirst(l, "#"), "?"))

\* an internal link: no scheme, or the file scheme
InternalScheme(l) == UrlScheme(l) = <<>> \/ UrlScheme(l) = FileScheme

\* the link reaches neither of the short cuts for anchors and empty links
HasPath(l) == SplitFirst(SplitFirst(l, "#"), "?") # <<>>

AbsSegment(l) == PathParts(LStrip(NormPath(l), "/"))

AbsPageExists(l) ==
    \/ exists(ContentRoot \o AbsSegment(l) \o <<IndexMd>>)
    \/ exists(ContentRoot \o AbsSegment(l) \o <<ListIndexMd>>)

RelTarget(l) == resolve(Parent(base_path) \o PathParts(NormPath(l)))

RelTargetExists(l) ==
    IF PathSuffix(PathParts(NormPath(l))) # <<>>
    THEN exists(RelTarget(l))
    ELSE exists(Append(RelTarget(l), IndexMd))

AbsoluteCase == pc = "checked" /\ InternalScheme(link) /\ StartsWith(NormPath(link), "/")

RelativeCase ==
    /\ pc = "checked" /\ InternalScheme(link) /\ HasPath(link)
    /\ ~StartsWith(NormPath(link), "/")

\* C1: for an internal link whose path starts with '/': with a file-extension
\* suffix on the last segment check_internal_link returns True whatever is on
\* disk; without one it returns True iff content_root/<segment>/index.md or
\* content_root/<segment>/_index.md exists.
C1_AbsoluteLink ==
    AbsoluteCase =>
        IF PathSuffix(AbsSegment(link)) # <<>>
        THEN result.ret = "True"
        ELSE (result.ret = "True") <=> AbsPageExists(link)

\* C1, on the links for which the resolver returns
C1_WhenResolverReturns ==
    AbsoluteCase /\ result.ret # "ValueError" =>
        IF PathSuffix(AbsSegment(link)) # <<>>
        THEN result = [ret |-> "True", io |-> FALSE]
        ELSE result.ret = Bool(AbsPageExists(link))

\* the links C2 names
TriviallyValid(l) ==
    \/ StartsWith(l, "#")
    \/ SplitFirst(l, "#") = <<>>
    \/ ~InternalScheme(l)
    \/ SplitFirst(l, "?") = <<>>

\* C2: check_internal_link returns True without consulting the filesystem for
\* every link that begins with '#', is empty once its fragment is removed, has
\* a scheme other than 'file', or is empty once its query is removed; such a
\* link is never listed as broken.
C2_TriviallyValid ==
    pc = "checked" /\ TriviallyValid(link) =>
        /\ result = [ret |-> "True", io |-> FALSE]
        /\ ~(internal = "True" /\ result.ret = "False")

\* C2, on the links for which the resolver returns
C2_WhenResolverReturns ==
    pc = "checked" /\ TriviallyValid(link) /\ result.ret # "ValueError" =>
        result = [ret |-> "True", io |-> FALSE]

\* C3: is_internal_link and check_internal_link end by returning a boolean for
\* every link string, never an error outcome.
C3_NeverRaises ==
    /\ pc # "resolve" => internal \in {"True", "False"}
    /\ pc = "checked" => result.ret \in {"True", "False"}

\* C4: for an internal link whose path does not start with '/', the path is
\* resolved against the folder of the referencing file: with a suffix
\* check_internal_link returns True iff that exact file exists, without one
\* iff <resolved-folder>/index.md exists (_index.md alone is not accepted).
C4_RelativeLink ==
    RelativeCase => ((result.ret = "True") <=> RelTargetExists(link))

\* C4, on the links for which the resolver returns
C4_WhenResolverReturns ==
    RelativeCase /\ result.ret # "ValueError" =>
        result = [ret |-> Bool(RelTargetExists(link)), io |-> TRUE]


----------------------------------------------------------------------------
(* The Link Extractor and the link scan (find_broken_links,                *)
(* check_404_links).  The text of a markdown file is a sequence of link    *)
(* elements: a markdown inline link [label](target), whose target the      *)
(* pattern requires to be non-empty, or an HTML anchor <a href="target">.  *)

MaxElems == 2

Md(t) == [kind |-> "md", target |-> t]

Html(t) == [kind |-> "html", target |-> t]

\* extract_links_from_markdown: the markdown targets, then the href targets,
\* empty targets discarded
extract_links_from_markdown(content) ==
    LET md   == SelectSeq(content, LAMBDA e : e.kind = "md")
        html == SelectSeq(content, LAMBDA e : e.kind = "html")
        all  == md \o html
        kept == SelectSeq(all, LAMBDA e : e.target # <<>>)
    IN  [i \in 1..Len(kept) |-> kept[i].target]

\* Path.name matches '*.md'
IsMarkdown(f) ==
    LET name == f[Len(f)]
    IN  Len(name) >= 3 /\ SubSeq(name, Len(name) - 2, Len(name)) = <<".", "m", "d">>

IsUnder(f, dir) == Len(f) > Len(dir) /\ SubSeq(f, 1, Len(dir)) = dir

\* content_dir.rglob('*.md')
md_files(content_dir) == {f \in fs : IsUnder(f, content_dir) /\ IsMarkdown(f)}

\* lines 120-123: the loop over the links of one file; raised when
\* is_internal_link or check_internal_link raises
RECURSIVE file_broken_links(_, _, _)
file_broken_links(links, md_file, acc) ==
    IF links = <<>> THEN [raised |-> FALSE, links |-> acc]
    ELSE LET l == Head(links)
         IN  IF is_internal_link(l) = "ValueError" THEN [raised |-> TRUE, links |-> acc]
             ELSE IF is_internal_link(l) = "False"
             THEN file_broken_links(Tail(links), md_file, acc)
             ELSE LET r == check_internal_link(l, md_file, ContentRoot, hugo_root).ret
                  IN  IF r = "ValueError" THEN [raised |-> TRUE, links |-> acc]
                      ELSE IF r = "False"
                      THEN file_broken_links(Tail(links), md_file, Append(acc, l))
                      ELSE file_broken_links(Tail(links), md_file, acc)

\* md_file.relative_to(hugo_root) raises ValueError outside hugo_root
RelativeToRaises(f, root) == ~IsUnder(f, root)

relative_to(f, root) == SubSeq(f, Len(root) + 1, Len(f))

\* a variant of lines 125-126 without the test of line 125: every file gets
\* an entry
record_every_file(md_file, file_links) ==
    Append(broken_links, [file |-> relative_to(md_file, hugo_root), links |-> file_links])

\* lines 125-126: a file with broken links gets an entry
record_broken_links(md_file, file_links) ==
    IF file_links # <<>>
    THEN Append(broken_links,
                [file |-> relative_to(md_file, hugo_root), links |-> file_links])
    ELSE broken_links

\* lines 116-126: one round of the loop over md_files; an exception leaves
\* the process with a traceback and exit code 1
ScanFile(md_file) ==
    /\ pc = "scan"
    /\ md_file \in pending
    /\ LET found == IF md_file \in unreadable THEN [raised |-> TRUE, links |-> <<>>]
                    ELSE file_broken_links(extract_links_from_markdown(contents[md_file]),
                                           md_file, <<>>)
       IN  IF found.raised \/ (found.links # <<>> /\ RelativeToRaises(md_file, hugo_root))
           THEN /\ pc' = "aborted"
                /\ exit_code' = 1
                /\ UNCHANGED <<pending, broken_links>>
           ELSE /\ pending' = pending \ {md_file}
                /\ broken_links' = record_broken_links(md_file, found.links)
                /\ UNCHANGED <<pc, exit_code>>
    /\ UNCHANGED <<fs, resolverVars, contents, unreadable, hugo_root, wrapVars, width, svgVars, otherVars>>

\* lines 156-171: find_broken_links has returned; report and exit
Report ==
    /\ pc = "scan"
    /\ pending = {}
    /\ exit_code' = IF broken_links = <<>> THEN 0 ELSE 1
    /\ pc' = "reported"
    /\ UNCHANGED <<fs, resolverVars, contents, unreadable, hugo_root, pending, broken_links,
                   wrapVars, width, svgVars, otherVars>>

ScanTargets == { <<"/", "a">>, <<"a">>, <<"h", ":">>, <<"/", "/", "[">> }

Elems == {Md(t) : t \in ScanTargets} \cup {Html(<<>>), Html(<<"/", "a">>)}

ScanUniverse ==
    { Append(ContentRoot, IndexMd), Append(PageA, IndexMd), Append(PageA, ListIndexMd),
      PageA \o << <<"a", ".", "a">> >> }

\* the text of file f when the elements all[i] with owner[i] = f are written
\* to it in order
RECURSIVE OwnedBy(_, _, _)
OwnedBy(all, owner, f) ==
    IF all = <<>> THEN <<>>
    ELSE (IF Head(owner) = f THEN <<Head(all)>> ELSE <<>>)
         \o OwnedBy(Tail(all), Tail(owner), f)

InitScan ==
    /\ pc = "scan"
    /\ fs \in (SUBSET ScanUniverse) \ {{}}
    /\ md_files(ContentRoot) # {}
    /\ \E n \in 0..MaxElems :
         \E all \in [1..n -> Elems] :
           \E owner \in [1..n -> md_files(ContentRoot)] :
              contents = [f \in md_files(ContentRoot) |-> OwnedBy(all, owner, f)]
    /\ unreadable \in SUBSET (md_files(ContentRoot) \cap {Append(PageA, ListIndexMd)})
    /\ hugo_root \in {HugoRoot, << <<"x">> >>}
    /\ pending = md_files(ContentRoot)
    /\ broken_links = <<>>
    /\ exit_code = NoExit
    /\ IdleResolver /\ IdleImage

NextScan == (\E md_file \in pending : ScanFile(md_file)) \/ Report

SpecScan == InitScan /\ [][NextScan]_vars


----------------------------------------------------------------------------
(* The Image Composer: wrap_by_width, tspans_center, make_svg.             *)

Max(a, b) == IF a >= b THEN a ELSE b

\* int(n / d) for d > 0: the quotient cut towards zero
IntDiv(n, d) == IF n >= 0 THEN n \div d ELSE -((-n) \div d)

Whitespace == {" ", "TAB"}

\* str.split(): the maximal runs of characters that are not whitespace
RECURSIVE SplitWords(_, _)
SplitWords(s, cur) ==
    IF s = <<>> THEN (IF cur = <<>> THEN <<>> ELSE <<cur>>)
    ELSE IF Head(s) \in Whitespace
    THEN (IF cur = <<>> THEN <<>> ELSE <<cur>>) \o SplitWords(Tail(s), <<>>)
    ELSE SplitWords(Tail(s), Append(cur, Head(s)))

\* a variant of lines 63-64 that takes the margin off one side only
max_chars_one_margin(fsize, w, margin) == Max(8, IntDiv((w - margin) * 100, 55 * fsize))

\* lines 63-64: max(8, int((width - 2 * margin) / (font_size * 0.55)))
max_chars(fsize, w, margin) == Max(8, IntDiv((w - 2 * margin) * 100, 55 * fsize))

\* lines 66-75: the greedy loop over the words
RECURSIVE WrapLoop(_, _, _, _)
WrapLoop(words, out, cur, limit) ==
    IF words = <<>> THEN (IF cur # <<>> THEN Append(out, cur) ELSE out)
    ELSE LET w   == Head(words)
             add == (IF cur # <<>> THEN <<" ">> ELSE <<>>) \o w
         IN  IF Len(cur) + Len(add) <= limit
             THEN WrapLoop(Tail(words), out, cur \o add, limit)
             ELSE WrapLoop(Tail(words), IF cur # <<>> THEN Append(out, cur) ELSE out, w, limit)

wrap_by_width(t, fsize, w, margin) ==
    IF t = <<>> THEN <<>>
    ELSE WrapLoop(SplitWords(t, <<>>), <<>>, <<>>, max_chars(fsize, w, margin))

\* str.replace(c, r) for a single character c
Replace(s, c, r) == Concat([i \in 1..Len(s) |-> IF s[i] = c THEN r ELSE <<s[i]>>])

Amp == <<"&", "a", "m", "p", ";">>

Gt == <<"&", "g", "t", ";">>

Lt == <<"&", "l", "t", ";">>

\* a variant of escape that replaces '&' last, after '>' and '<'
escape_amp_last(data) == Replace(Replace(Replace(data, ">", Gt), "<", Lt), "&", Amp)

\* xml.sax.saxutils.escape(data): '&', then '>', then '<'
escape(data) == Replace(Replace(Replace(data, "&", Amp), ">", Gt), "<", Lt)

\* lines 79-84: one tspan per line, the first with dy = 0
tspans_center(ls, line_height, cx) ==
    [i \in 1..Len(ls) |-> [x |-> cx, dy |-> IF i = 1 THEN 0 ELSE line_height,
                           content |-> escape(ls[i])]]

margin == 80

title_size == 52

desc_size == 30

gap == 28

\* int(title_size * 1.25), int(desc_size * 1.45)
lh_title == IntDiv(title_size * 125, 100)

lh_desc == IntDiv(desc_size * 145, 100)

\* lines 87-113: the document, as the values the template is filled with
make_svg(t, d, w, h) ==
    LET t_lines == wrap_by_width(t, title_size, w, margin)
        d_lines == wrap_by_width(d, desc_size, w, margin)
        dgap    == IF d_lines # <<>> THEN gap ELSE 0
        block_h == Len(t_lines) * lh_title + dgap + Len(d_lines) * lh_desc
        start_y == IntDiv(h - block_h + 2 * title_size, 2)
    IN  [ width |-> w, height |-> h,
          title_y |-> start_y,
          title_tspans |-> tspans_center(t_lines, lh_title, w \div 2),
          desc_y |-> start_y + Len(t_lines) * lh_title + dgap,
          desc_tspans |-> tspans_center(d_lines, lh_desc, w \div 2) ]

----------------------------------------------------------------------------
(* wrap_by_width applied to one text, with the arguments make_svg gives it *)

MaxWrapTokens == 5

WrapTokens ==
    { <<" ">>, <<"TAB">>, <<"a">>, <<"a", "a", "a", "a">>,
      <<"b", "b", "b", "b", "b", "b", "b", "b", "b">> }

WrapTexts == {Concat(ts) : ts \in UNION {[1..n -> WrapTokens] : n \in 0..MaxWrapTokens}}

Widths == {100, 400, 420, 1200}

InitWrap ==
    /\ pc = "wrap"
    /\ text \in WrapTexts
    /\ font_size \in {title_size, desc_size}
    /\ width \in Widths
    /\ lines = <<>>
    /\ fs = {} /\ IdleResolver /\ IdleScan /\ IdleSvg /\ IdleFm /\ IdleRun

Wrap ==
    /\ pc = "wrap"
    /\ lines' = wrap_by_width(text, font_size, width, margin)
    /\ pc' = "wrapped"
    /\ UNCHANGED <<fs, resolverVars, scanVars, text, font_size, width, svgVars, otherVars>>

NextWrap == Wrap

SpecWrap == InitWrap /\ [][NextWrap]_vars

----------------------------------------------------------------------------
(* make_svg applied to one title and description.                          *)

MaxTitleTokens == 3

MaxDescTokens == 1

SvgTokens == { <<"<">>, <<">">>, <<"&">>, <<"\"">>, <<" ">>, <<"a">>, <<"a", "a", "a", "a">> }

SvgTexts(n) == {Concat(ts) : ts \in UNION {[1..k -> SvgTokens] : k \in 0..n}}

InitSvg ==
    /\ pc = "compose"
    /\ title \in SvgTexts(MaxTitleTokens)
    /\ desc \in SvgTexts(MaxDescTokens)
    /\ width \in {400, 1200}
    /\ height = 630
    /\ document = <<>>
    /\ fs = {} /\ IdleResolver /\ IdleScan /\ IdleWrap /\ IdleFm /\ IdleRun

MakeSvg ==
    /\ pc = "compose"
    /\ document' = make_svg(title, desc, width, height)
    /\ pc' = "composed"
    /\ UNCHANGED <<fs, resolverVars, scanVars, wrapVars, width, title, desc, height, otherVars>>

NextSvg == MakeSvg

SpecSvg == InitSvg /\ [][NextSvg]_vars

----------------------------------------------------------------------------
(* The Frontmatter Reader.  A word of the fallback parser's key set is     *)
(* written as one character: T title, O seoTitle, D description,           *)
(* S summary, L layout; "x" is any other letter, "5" a digit.              *)

BOM == "BOM"    \* the character U+FEFF

NL == "NL"      \* the line feed

Dashes == <<"-", "-", "-">>

StripSet == {" ", "TAB", NL}

RECURSIVE LStripWs(_)
LStripWs(s) == IF s # <<>> /\ Head(s) \in StripSet THEN LStripWs(Tail(s)) ELSE s

RECURSIVE RStripWs(_)
RStripWs(s) ==
    IF s # <<>> /\ s[Len(s)] \in StripSet THEN RStripWs(SubSeq(s, 1, Len(s) - 1)) ELSE s

\* str.strip()
Strip(s) == RStripWs(LStripWs(s))

\* str.strip(c)
StripChar(s, c) == RStrip(LStrip(s, c), c)

StartsWithDashes(s) == Len(s) >= 3 /\ SubSeq(s, 1, 3) = Dashes

\* str.find("---") + 1
FindDashes(s) ==
    LET at == {i \in 1..(Len(s) - 2) : SubSeq(s, i, i + 2) = Dashes}
    IN  IF at = {} THEN 0 ELSE CHOOSE i \in at : \A j \in at : i <= j

\* s.split("---", 2)
SplitDashes(s) ==
    LET i    == FindDashes(s)
        rest == SubSeq(s, i + 3, Len(s))
        j    == FindDashes(rest)
    IN  IF i = 0 THEN <<s>>
        ELSE IF j = 0 THEN <<SubSeq(s, 1, i - 1), rest>>
        ELSE <<SubSeq(s, 1, i - 1), SubSeq(rest, 1, j - 1), SubSeq(rest, j + 3, Len(rest))>>

StrVal(v) == [type |-> "str", val |-> v]

IntVal(v) == [type |-> "int", val |-> v]

EmptyMapping == <<>>

\* data[k] = v
Put(data, k, v) == (k :> v) @@ data

FallbackKeys == { <<"T">>, <<"O">>, <<"D">>, <<"S">>, <<"L">> }

\* lines 49-56: the line parser for the fixed key set
RECURSIVE FallbackParse(_, _)
FallbackParse(ls, data) ==
    IF ls = <<>> THEN data
    ELSE LET line == Head(ls)
             k == Strip(SubSeq(line, 1, Find(line, ":") - 1))
             v == StripChar(StripChar(Strip(SubSeq(line, Find(line, ":") + 1, Len(line))),
                                      "\""), "'")
         IN  IF Contains(line, ":") /\ k \in FallbackKeys
             THEN FallbackParse(Tail(ls), Put(data, k, StrVal(v)))
             ELSE FallbackParse(Tail(ls), data)

(* yaml.safe_load on the blocks of this model: lines "key: value", plain    *)
(* scalars and "- item" lines at the left margin.                           *)

Digits == {"5"}

\* the position of the first ':' that ends a key (followed by a space or the
\* end of the line), 0 when there is none
FindIndicator(line) ==
    LET at == {i \in 1..Len(line) : line[i] = ":" /\ (i = Len(line) \/ line[i + 1] = " ")}
    IN  IF at = {} THEN 0 ELSE CHOOSE i \in at : \A j \in at : i <= j

Quoted(t) == Len(t) >= 2 /\ t[1] = "\"" /\ t[Len(t)] = "\""

YamlScalar(v) ==
    LET t == Strip(v)
    IN  IF Quoted(t) THEN StrVal(SubSeq(t, 2, Len(t) - 1))
        ELSE IF t # <<>> /\ \A i \in 1..Len(t) : t[i] \in Digits THEN IntVal(t)
        ELSE StrVal(t)

YamlLine(line) ==
    LET i    == FindIndicator(line)
        rest == SubSeq(line, i + 1, Len(line))
    IN  IF Strip(line) = <<>> THEN [kind |-> "blank"]
        ELSE IF line[1] = "-" /\ (Len(line) = 1 \/ line[2] = " ") THEN [kind |-> "item"]
        ELSE IF i = 0 THEN [kind |-> "scalar"]
        ELSE IF ~Quoted(Strip(rest)) /\ FindIndicator(rest) # 0 THEN [kind |-> "error"]
        ELSE [kind |-> "entry", key |-> Strip(SubSeq(line, 1, i - 1)), value |-> YamlScalar(rest)]

RECURSIVE YamlMapping(_, _)
YamlMapping(ls, data) ==
    IF ls = <<>> THEN data
    ELSE YamlMapping(Tail(ls), Put(data, Head(ls).key, Head(ls).value))

\* line 43: "raise" for a block the parser rejects, "none" for an empty one,
\* "mapping" with its data, "other" for a scalar or a list
YamlLoad(fm_raw) ==
    LET all   == Split(fm_raw, NL)
        ls    == SelectSeq([i \in 1..Len(all) |-> YamlLine(all[i])], LAMBDA y : y.kind # "blank")
        kinds == {ls[i].kind : i \in 1..Len(ls)}
    IN  IF ls = <<>> THEN [kind |-> "none"]
        ELSE IF kinds = {"entry"} THEN [kind |-> "mapping", data |-> YamlMapping(ls, EmptyMapping)]
        ELSE IF kinds = {"item"} \/ kinds = {"scalar"} THEN [kind |-> "other"]
        ELSE [kind |-> "raise"]

\* read_frontmatter(md_path): the mapping returned
read_frontmatter(txt, can_read, has_yaml) ==
    LET s     == LStripWs(IF StartsWith(txt, BOM) THEN Tail(txt) ELSE txt)
        parts == SplitDashes(s)
    IN  IF ~can_read THEN EmptyMapping
        ELSE IF ~StartsWithDashes(s) THEN EmptyMapping
        ELSE IF Len(parts) < 3 THEN EmptyMapping
        ELSE IF has_yaml /\ YamlLoad(parts[2]).kind = "none" THEN EmptyMapping
        ELSE IF has_yaml /\ YamlLoad(parts[2]).kind = "mapping" THEN YamlLoad(parts[2]).data
        ELSE FallbackParse(Split(parts[2], NL), EmptyMapping)

----------------------------------------------------------------------------
(* read_frontmatter applied to one file.                                   *)

MaxFmLines == 2

FmLines ==
    { <<"T", ":", " ", "x">>, <<"T", ":", " ", "\"", "x", "\"">>, <<"T", ":", " ", "5">>,
      <<"T", ":", " ", "x", ":", " ", "x">>, <<"x", ":", " ", "x">>,
      <<"D", ":", " ", "x">>, <<"S", ":", "x">>, <<"x">>, <<"-", " ", "T", ":", " ", "x">> }

RECURSIVE JoinLines(_)
JoinLines(ls) == IF ls = <<>> THEN <<>> ELSE Head(ls) \o <<NL>> \o JoinLines(Tail(ls))

FmBlocks == {<<NL>> \o JoinLines(ls) : ls \in UNION {[1..n -> FmLines] : n \in 0..MaxFmLines}}

FmPrefixes == { <<>>, <<BOM>>, <<NL>>, <<" ">>, <<BOM, NL>>, <<" ", BOM>>, <<"x", NL>> }

FmTexts ==
    { pre \o open \o block \o close \o post :
        pre \in FmPrefixes, open \in {Dashes, <<"-", "-">>, <<>>}, block \in FmBlocks,
        close \in {Dashes, <<>>}, post \in {<<>>, <<NL, "x">>} }

InitFm ==
    /\ pc = "frontmatter"
    /\ md_text \in FmTexts
    /\ readable \in BOOLEAN
    /\ yaml \in BOOLEAN
    /\ fm = EmptyMapping
    /\ fs = {} /\ IdleResolver /\ IdleScan /\ IdleWrap /\ IdleSvg /\ width = 0 /\ IdleRun

ReadFrontmatter ==
    /\ pc = "frontmatter"
    /\ fm' = read_frontmatter(md_text, readable, yaml)
    /\ pc' = "read"
    /\ UNCHANGED <<fs, resolverVars, scanVars, wrapVars, width, svgVars, md_text, readable, yaml,
                   runVars>>

NextFm == ReadFrontmatter

SpecFm == InitFm /\ [][NextFm]_vars

----------------------------------------------------------------------------
(* The svg command: discovery, generate_for on each file, the count.       *)

\* the code point of a character of a file name
Ord(ch) ==
    CASE ch = "-" -> 45 [] ch = "." -> 46 [] ch = "_" -> 95 [] ch = "a" -> 97
      [] ch = "c" -> 99 [] ch = "d" -> 100 [] ch = "e" -> 101 [] ch = "g" -> 103
      [] ch = "h" -> 104 [] ch = "i" -> 105 [] ch = "m" -> 109 [] ch = "n" -> 110
      [] ch = "s" -> 115 [] ch = "v" -> 118 [] ch = "x" -> 120

\* str.__lt__
RECURSIVE StrLess(_, _)
StrLess(a, b) ==
    IF b = <<>> THEN FALSE
    ELSE IF a = <<>> THEN TRUE
    ELSE IF Head(a) # Head(b) THEN Ord(Head(a)) < Ord(Head(b))
    ELSE StrLess(Tail(a), Tail(b))

\* PurePath.__lt__: the parts compared as lists
RECURSIVE PathLess(_, _)
PathLess(p, q) ==
    IF q = <<>> THEN FALSE
    ELSE IF p = <<>> THEN TRUE
    ELSE IF Head(p) # Head(q) THEN StrLess(Head(p), Head(q))
    ELSE PathLess(Tail(p), Tail(q))

\* sorted(set(...))
RECURSIVE Sorted(_)
Sorted(S) ==
    IF S = {} THEN <<>>
    ELSE LET m == CHOOSE x \in S : \A y \in S \ {x} : PathLess(x, y)
         IN  <<m>> \o Sorted(S \ {m})

\* content_dir.rglob(name)
rglob(content_dir, name) == {f \in fs : IsUnder(f, content_dir) /\ f[Len(f)] = name}

ImageSvg == <<"-", "i", "m", "a", "g", "e", ".", "s", "v", "g">>

resolve_output_path(folder) == folder \o <<folder[Len(folder)] \o ImageSvg>>

None == [type |-> "none", val |-> <<>>]

\* dict.get(k)
Get(data, k) == IF k \in DOMAIN data THEN data[k] ELSE None

\* the truth value of a frontmatter value (Digits holds no zero)
Truthy(v) == v.type = "int" \/ (v.type = "str" /\ v.val # <<>>)

\* (v or "")
OrEmpty(v) == IF Truthy(v) THEN v ELSE StrVal(<<>>)

\* (fm.get(k) or "").strip() raises AttributeError on a value without strip
StripRaises(data, k) == OrEmpty(Get(data, k)).type # "str"

Stripped(data, k) == Strip(OrEmpty(Get(data, k)).val)

\* lines 122-132: generate_for once the frontmatter is read
generate_from(data, md, w, h) ==
    LET desc_primary == Stripped(data, <<"D">>)
        d            == IF desc_primary # <<>> THEN desc_primary ELSE Stripped(data, <<"S">>)
    IN  IF data = EmptyMapping THEN [outcome |-> "None"]
        ELSE IF StripRaises(data, <<"T">>) \/ StripRaises(data, <<"D">>)
                \/ StripRaises(data, <<"S">>)
        THEN [outcome |-> "AttributeError"]
        ELSE [outcome  |-> "written",
              out_path |-> resolve_output_path(Parent(md)),
              svg      |-> make_svg(Stripped(data, <<"T">>), d, w, h)]

\* generate_for(md): "None", "AttributeError", or the path and the document
\* written
generate_for(md, w, h) == generate_from(read_frontmatter(files[md], TRUE, yaml), md, w, h)

MaxPages == 2

\* the page folders: the content directory and the folders a, a/a, ... below it
RECURSIVE PageFolder(_)
PageFolder(n) == IF n = 0 THEN ContentRoot ELSE PageFolder(n - 1) \o << <<"a">> >>

RunUniverse == UNION {{PageFolder(n) \o <<IndexMd>>, PageFolder(n) \o <<ListIndexMd>>} :
                        n \in 0..(MaxPages - 1)}

Block(line) == Dashes \o <<NL>> \o line \o <<NL>> \o Dashes \o <<NL, "x">>

RunTexts ==
    { <<"x", NL>>, Block(<<"T", ":", " ", "x">>), Block(<<"T", ":", " ", "5">>),
      Block(<<"S", ":", " ", "x", " ", "x">>) }

InitRun ==
    /\ pc = "svg"
    /\ files \in UNION {[S -> RunTexts] : S \in SUBSET RunUniverse}
    /\ fs = DOMAIN files
    /\ yaml \in BOOLEAN
    /\ width = 1200 /\ height = 630
    /\ svg_md_files = <<>> /\ md_index = 0 /\ count = 0 /\ echo = <<>> /\ writes = <<>>
    /\ IdleResolver /\ IdleScan /\ IdleWrap
    /\ title = <<>> /\ desc = <<>> /\ document = <<>>
    /\ md_text = <<>> /\ readable = TRUE /\ fm = <<>>

\* lines 159-169
Discover ==
    /\ pc = "svg"
    /\ LET found == Sorted(rglob(ContentRoot, IndexMd) \cup rglob(ContentRoot, ListIndexMd))
       IN  IF found = <<>>
           THEN /\ echo' = Append(echo, [line |-> "No markdown files"])
                /\ pc' = "done"
                /\ UNCHANGED <<svg_md_files, count>>
           ELSE /\ svg_md_files' = found
                /\ count' = 0
                /\ pc' = "loop"
                /\ UNCHANGED echo
    /\ UNCHANGED <<fs, resolverVars, scanVars, wrapVars, width, svgVars, fmVars, yaml,
                   files, md_index, writes>>

\* lines 170-178: one iteration of the loop
GenerateFor ==
    /\ pc = "loop"
    /\ md_index < Len(svg_md_files)
    /\ LET md == svg_md_files[md_index + 1]
       IN  \E out \in {generate_for(md, width, height)} :
           CASE out.outcome = "AttributeError" ->
                  /\ pc' = "AttributeError"
                  /\ UNCHANGED <<fs, files, md_index, count, echo, writes>>
             [] out.outcome = "None" ->
                  /\ echo' = Append(echo, [line |-> "skip", rel |-> relative_to(md, ContentRoot)])
                  /\ md_index' = md_index + 1
                  /\ UNCHANGED <<pc, fs, files, count, writes>>
             [] out.outcome = "written" ->
                  /\ files' = (out.out_path :> out.svg) @@ files
                  /\ fs' = fs \cup {out.out_path}
                  /\ writes' = Append(writes, [md |-> md, path |-> out.out_path])
                  /\ echo' = Append(echo, [line |-> "wrote",
                                           rel  |-> relative_to(out.out_path, ContentRoot)])
                  /\ count' = count + 1
                  /\ md_index' = md_index + 1
                  /\ UNCHANGED pc
    /\ UNCHANGED <<resolverVars, scanVars, wrapVars, width, svgVars, fmVars, yaml, svg_md_files>>

\* line 180
Generated ==
    /\ pc = "loop"
    /\ md_index = Len(svg_md_files)
    /\ echo' = Append(echo, [line |-> "Generated", n |-> count])
    /\ pc' = "done"
    /\ UNCHANGED <<fs, resolverVars, scanVars, wrapVars, width, svgVars, fmVars, yaml,
                   files, svg_md_files, md_index, count, writes>>

NextRun == Discover \/ GenerateFor \/ Generated

SpecRun == InitRun /\ [][NextRun]_vars

----------------------------------------------------------------------------
(* Claim about the link scan (checked under SpecScan).                     *)

\* the internal links of file f that the Resolver reports as not existing
BrokenIn(f) ==
    SelectSeq(extract_links_from_markdown(contents[f]),
              LAMBDA l : /\ is_internal_link(l) = "True"
                         /\ check_internal_link(l, f, ContentRoot, hugo_root).ret = "False")

EntriesFor(f) ==
    {i \in 1..Len(broken_links) : broken_links[i].file = relative_to(f, hugo_root)}

\* C5: after a completed scan the ScanResult has an entry for a markdown file
\* iff the file holds an internal link the Resolver reports as not existing;
\* the entry lists exactly those links, no entry is empty, and the command
\* exits with 1 iff the ScanResult is non-empty and with 0 otherwise.
C5_ScanResult ==
    pc = "reported" =>
        /\ \A f \in md_files(ContentRoot) :
              /\ (EntriesFor(f) # {}) <=> (BrokenIn(f) # <<>>)
              /\ \A i \in EntriesFor(f) : broken_links[i].links = BrokenIn(f)
              /\ Cardinality(EntriesFor(f)) <= 1
        /\ \A i \in 1..Len(broken_links) :
              /\ broken_links[i].links # <<>>
              /\ \E f \in md_files(ContentRoot) : i \in EntriesFor(f)
        /\ exit_code = (IF broken_links # <<>> THEN 1 ELSE 0)

\* a completed scan with an offending file, a clean file and an external link
C5_Witness ==
    /\ pc = "reported"
    /\ broken_links # <<>>
    /\ exit_code = 1
    /\ \E f \in md_files(ContentRoot) :
          /\ EntriesFor(f) = {}
          /\ \E i \in 1..Len(contents[f]) : contents[f][i].target = <<"h", ":">>

\* a completed scan without broken links
C5_WitnessClean ==
    /\ pc = "reported" /\ broken_links = <<>> /\ exit_code = 0
    /\ \E f \in md_files(ContentRoot) : contents[f] # <<>>


----------------------------------------------------------------------------
(* Claims about the Image Composer.                                        *)

RECURSIVE Flatten(_)
Flatten(ss) == IF ss = <<>> THEN <<>> ELSE Head(ss) \o Flatten(Tail(ss))

\* the budget as the specification states it, with the floor of the quotient
Budget == Max(8, ((width - 2 * margin) * 100) \div (55 * font_size))

WordsOfLines == Flatten([i \in 1..Len(lines) |-> SplitWords(lines[i], <<>>)])

\* C6 (checked under SpecWrap): for a non-empty text wrap_by_width returns at
\* least one line when the text has a word; every line is non-empty; no line
\* is longer than max(8, floor((width - 2*margin) / (0.55*font_size))) unless
\* it is a single word; the words of the lines, in order, are the words of
\* the text.
C6_Wrap ==
    pc = "wrapped" /\ text # <<>> =>
        /\ SplitWords(text, <<>>) # <<>> => Len(lines) >= 1
        /\ \A i \in 1..Len(lines) :
              /\ lines[i] # <<>>
              /\ Len(lines[i]) > Budget => Len(SplitWords(lines[i], <<>>)) = 1
        /\ WordsOfLines = SplitWords(text, <<>>)

\* a text wrapped into several lines, one of them of several words, one of
\* them a single word longer than the budget
C6_Witness ==
    /\ pc = "wrapped"
    /\ Len(lines) >= 2
    /\ \E i \in 1..Len(lines) : Len(SplitWords(lines[i], <<>>)) >= 2
    /\ \E i \in 1..Len(lines) : Len(lines[i]) > Budget

AllTspans == document.title_tspans \o document.desc_tspans

EntityAt(t, i) ==
    \/ i + 4 <= Len(t) /\ SubSeq(t, i, i + 4) = Amp
    \/ i + 3 <= Len(t) /\ SubSeq(t, i, i + 3) = Gt
    \/ i + 3 <= Len(t) /\ SubSeq(t, i, i + 3) = Lt

\* no character of cs stands in t, except '&' as the start of an entity
NoUnescaped(t, cs) ==
    \A i \in 1..Len(t) :
        t[i] \in cs => (t[i] = "&" /\ EntityAt(t, i))

\* the text an XML reader gets from the content t
RECURSIVE Unescape(_)
Unescape(t) ==
    IF t = <<>> THEN <<>>
    ELSE IF Len(t) >= 5 /\ SubSeq(t, 1, 5) = Amp THEN <<"&">> \o Unescape(SubSeq(t, 6, Len(t)))
    ELSE IF Len(t) >= 4 /\ SubSeq(t, 1, 4) = Gt THEN <<">">> \o Unescape(SubSeq(t, 5, Len(t)))
    ELSE IF Len(t) >= 4 /\ SubSeq(t, 1, 4) = Lt THEN <<"<">> \o Unescape(SubSeq(t, 5, Len(t)))
    ELSE <<Head(t)>> \o Unescape(Tail(t))

SourceLines ==
    wrap_by_width(title, title_size, width, margin) \o wrap_by_width(desc, desc_size, width, margin)

----------------------------------------------------------------------------
(* Claim about the Frontmatter Reader (checked under SpecFm).              *)

FmParts == SplitDashes(LStripWs(IF StartsWith(md_text, BOM) THEN Tail(md_text) ELSE md_text))

\* the file is read and holds a block opened and closed by '---'
HasBlock == readable /\ FmParts[1] = <<>> /\ Len(FmParts) = 3

\* the structured parser is there and rejects the block
Unparsable == HasBlock /\ yaml /\ YamlLoad(FmParts[2]).kind = "raise"

IsMapping(data) == \A k \in DOMAIN data : data[k].type \in {"str", "int"}

\* C8: read_frontmatter returns a mapping for every file, and the mapping is
\* empty whenever no frontmatter block is found or the block cannot be parsed.
C8_EmptyWhenUnparsed ==
    pc = "read" =>
        /\ IsMapping(fm)
        /\ (~HasBlock \/ Unparsable) => fm = EmptyMapping

\* the part of C8 that holds: a mapping always, empty when no block is found
C8_EmptyWithoutBlock ==
    pc = "read" =>
        /\ IsMapping(fm)
        /\ ~HasBlock => fm = EmptyMapping

\* a rejected block from which the line parser still takes the title
C8_RejectedBlockRead ==
    /\ pc = "read"
    /\ Unparsable
    /\ <<"T">> \in DOMAIN fm

----------------------------------------------------------------------------
(* Claims about the svg command (checked under SpecRun).                   *)

Discovered == rglob(ContentRoot, IndexMd) \cup rglob(ContentRoot, ListIndexMd)

WritesFor(md) == {i \in 1..Len(writes) : writes[i].md = md}

Echoed(kind, rel) ==
    \E i \in 1..Len(echo) : echo[i].line = kind /\ echo[i].rel = rel

\* <containing-folder>/<folder-name>-image.svg
ImageOf(md) ==
    LET folder == SubSeq(md, 1, Len(md) - 1)
    IN  folder \o <<folder[Len(folder)] \o <<"-", "i", "m", "a", "g", "e", ".", "s", "v", "g">> >>

EmptyFrontmatter(md) == read_frontmatter(files[md], TRUE, yaml) = EmptyMapping

FrameEffect ==
    /\ \A md \in Discovered :
          IF EmptyFrontmatter(md)
          THEN /\ Echoed("skip", relative_to(md, ContentRoot))
               /\ WritesFor(md) = {}
          ELSE /\ Cardinality(WritesFor(md)) = 1
               /\ \A i \in WritesFor(md) : writes[i].path = ImageOf(md)
               /\ Echoed("wrote", relative_to(ImageOf(md), ContentRoot))
    /\ \A i \in 1..Len(writes) : ~IsMarkdown(writes[i].path)
    /\ RunUniverse \cap fs = {f \in DOMAIN files : IsMarkdown(f)}
    /\ \A f \in RunUniverse \cap fs : files[f] \in RunTexts

\* C9: when an svg run has ended, every discovered file with an empty
\* frontmatter mapping has a skip line and no file written for it, every
\* other discovered file has exactly one file written for it, at
\* <containing-folder>/<folder-name>-image.svg, and a wrote line; no markdown
\* file is written or removed.
C9_FrameEffect == pc \in {"done", "AttributeError"} => FrameEffect

\* C9 for the runs that reach line 180
C9_WhenRunCompletes == pc = "done" => FrameEffect

\* a run ended by the AttributeError of line 124
C9_RunAborted ==
    /\ pc = "AttributeError"
    /\ \E md \in Discovered : ~EmptyFrontmatter(md) /\ WritesFor(md) = {}

ProcessedLines == {i \in 1..Len(echo) : echo[i].line \in {"skip", "wrote"}}

WrittenPaths == {writes[i].path : i \in 1..Len(writes)}

CountMatches ==
    /\ {svg_md_files[i] : i \in 1..Len(svg_md_files)} = Discovered
    /\ Len(svg_md_files) = Cardinality(Discovered)
    /\ md_index = Len(svg_md_files)
    /\ Cardinality(ProcessedLines) = Cardinality(Discovered)
    /\ \A i, j \in 1..Len(writes) : writes[i].path = writes[j].path => i = j
    /\ Discovered # {} =>
          echo[Len(echo)] = [line |-> "Generated", n |-> Cardinality(WrittenPaths)]

\* C10: in a completed svg run every discovered markdown file is processed
\* exactly once, each output path is written at most once, and the count of
\* the 'Generated N SVG file(s)' line is the number of distinct files written.
C10_CountIsDistinctFiles == pc = "done" => CountMatches

BothWithFrontmatter ==
    \E n \in 0..(MaxPages - 1) :
        /\ {PageFolder(n) \o <<IndexMd>>, PageFolder(n) \o <<ListIndexMd>>} \subseteq Discovered
        /\ ~EmptyFrontmatter(PageFolder(n) \o <<IndexMd>>)
        /\ ~EmptyFrontmatter(PageFolder(n) \o <<ListIndexMd>>)

\* C10 for the content trees in which no folder holds both index.md and
\* _index.md with non-empty frontmatter
C10_WhenFoldersHoldOne == pc = "done" /\ ~BothWithFrontmatter => CountMatches

\* a completed run over a folder that holds both files with frontmatter
C10_BothWritten ==
    /\ pc = "done"
    /\ BothWithFrontmatter
    /\ count = 2
    /\ Cardinality(WrittenPaths) = 1

====
